---- MODULE Spec2Model ----
(***************************************************************************)
(* Synchronous population-based training over MPI (mnist_pbt_sync.py).     *)
(*                                                                         *)
(* One coordinating process (class Cluster, rank 0) and worker processes   *)
(* (function worker, ranks 1..W).  MPI point-to-point channels are         *)
(* reliable and ordered per pair: toWorker[r] carries what the Cluster     *)
(* sends to rank r, toMaster[r] what rank r sends back.                    *)
(*                                                                         *)
(* Arithmetic of Cluster.__init__ is done in Python floats                 *)
(* (pop_size / len(rank_devices)); here it is exact, in units of 1/W.      *)
(* The two agree for every pop_size when W <= 5 (W/gcd(pop_size, W) is     *)
(* then 1, 2, 4 or the running share is never a whole number).             *)
(* ceil(0.2 * n) and floor(0.8 * n) agree with n/5 rounded up and 4n/5     *)
(* rounded down for every n the model reaches.                             *)
(***************************************************************************)
EXTENDS Integers, Sequences, FiniteSets, TLC

\* ------------------------------------------------------------------ bounds
MaxPop == 3
MaxGroupPop == 11
MaxW == 2
MaxStep == 2
MaxAcc == 1
MaxVal == 1
MaxNums == 2
MaxBacklog == 2

Ranks == 1..MaxW
Accs == 0..MaxAcc
Values == 0..MaxVal

\* ------------------------------------------------------------- vocabulary
\* class Attribute
STEP_NUM == "STEP_NUM"
VALUE == "VALUE"
UPDATE_HISTORY == "UPDATE_HISTORY"
ACCURACY == "ACCURACY"

\* class Instruction (SETUP is the untagged (device, start, end) tuple)
EXIT == "EXIT"
INIT == "INIT"
GET == "GET"
COPY_TRAIN_GET == "COPY_TRAIN_GET"
SETUP == "SETUP"

None == "None"
\* None where a graph number, or a list of graph numbers, is expected
NoNum == -1
NoNums == <<NoNum>>
EmptyMap == << >>

VARIABLES
    pop_size,        \* Cluster.pop_size
    rank_graphs,     \* Cluster.rank_graphs: rank -> list of graph numbers
    graph_ranks,     \* Cluster.graph_ranks: list, graph number i at position i+1
    cpc,             \* where the coordinating process is
    op,              \* the Cluster method being executed / last executed
    exit_called,     \* exit_workers has been called
    tr,              \* locals of train and _exploit_and_or_explore
    ga,              \* locals of get_attributes
    best_num,        \* local of get_highest_metric_graph
    result,          \* value returned by the last finished method
    toWorker,        \* messages Cluster -> worker, per rank
    toMaster,        \* messages worker -> Cluster, per rank
    wstate,          \* worker: Uninit / Ready / Exited / Crashed
    wrange,          \* worker: (start_num, end_num)
    graphs,          \* worker: graph number -> ConvNet state
    call_log,        \* worker: ConvNet calls of the last COPY_TRAIN_GET handled
    sent_log,        \* per call: <<instruction, attributes>> sent to each rank
    recvd,           \* per call: replies received from each rank
    round_no,        \* per train call: COPY_TRAIN_GET fan-outs so far
    start_zero,      \* per train call: every step_num was 0 at the call
    exploit_no,      \* per round: calls of _exploit_and_or_explore in the decision
    train_calls      \* per train call: ConvNet.train() calls per graph number

cluster == <<pop_size, rank_graphs, graph_ranks>>
wvars == <<wstate, wrange, graphs, call_log>>
callghost == <<sent_log, recvd>>
trainghost == <<round_no, start_zero, exploit_no>>
vars == <<cluster, cpc, op, exit_called, tr, ga, best_num, result,
          toWorker, toMaster, wvars, callghost, trainghost, train_calls>>

\* ---------------------------------------------------------------- helpers
Min(a, b) == IF a < b THEN a ELSE b

\* math.ceil(a / b) for b > 0
CeilDiv(a, b) == -((-a) \div b)

\* list(range(a, b))
Range(a, b) == [i \in 1..(IF b > a THEN b - a ELSE 0) |-> a + i - 1]

Elems(s) == {s[i] : i \in 1..Len(s)}

\* dict.update / dict lookup on functions
Update(d, e) == [k \in DOMAIN d \cup DOMAIN e |-> IF k \in DOMAIN e THEN e[k] ELSE d[k]]

Msg(instr, nums, attrs, vals, start, end) ==
    [instr |-> instr, nums |-> nums, attrs |-> attrs, new_values |-> vals,
     start |-> start, end |-> end]

ZeroCount == [r \in Ranks |-> 0]
NoLog == [r \in Ranks |-> << >>]

\* the locals of train / get_attributes before the method is entered
NoTrain == [until_step_num |-> 0, attributes |-> << >>, new_values |-> EmptyMap,
            exploited |-> FALSE, worst_nums |-> << >>, best_nums |-> << >>,
            pending |-> << >>, attributes_dict |-> EmptyMap]
NoGet == [attribute_ids |-> << >>, graph_nums |-> << >>, arg_nums |-> NoNums,
          pending |-> << >>, attributes_dict |-> EmptyMap, ret |-> None,
          result |-> << >>]

\* ------------------------------------------------------------------ ConvNet
\* mnist_pbt.ConvNet, through the capabilities the Cluster and worker use
ConvNet(num) ==
    [num |-> num, step_num |-> 0, value |-> 0, update_history |-> 0, accuracy |-> 0]

ConvNet_initialize_variables(graph, v, a) ==
    [graph EXCEPT !.value = v, !.accuracy = a]

ConvNet_set_value(graph, v) == [graph EXCEPT !.value = v]

ConvNet_explore(graph) == [graph EXCEPT !.update_history = @ + 1]

ConvNet_train(graph, v, a) ==
    [graph EXCEPT !.step_num = @ + 1, !.value = v, !.accuracy = a]

GETTERS(attribute, graph) ==
    CASE attribute = STEP_NUM -> graph.step_num
      [] attribute = VALUE -> graph.value
      [] attribute = UPDATE_HISTORY -> graph.update_history
      [] attribute = ACCURACY -> graph.accuracy

\* --------------------------------------------------------- Cluster.__init__
\* the loop of lines 123-130 from rank r on; gtm is graphs_to_make * W
RECURSIVE PartitionLoop(_, _, _, _, _)
PartitionLoop(r, W, pop, graph_num, gtm) ==
    IF r > W THEN << >>
    ELSE LET gtm1 == gtm + pop
             start_num == graph_num
             graph_num1 == Min(graph_num + CeilDiv(gtm1, W), pop)
         IN  << <<start_num, graph_num1>> >> \o
             PartitionLoop(r + 1, W, pop, graph_num1,
                           gtm1 - (graph_num1 - start_num) * W)

\* every worker gets int(pop_size / W) graphs, the remainder is dropped
PartitionTruncated(pop, W) ==
    [r \in 1..W |-> <<(r - 1) * (pop \div W), r * (pop \div W)>>]

Partition(pop, W) == PartitionLoop(1, W, pop, 0, 0)

RECURSIVE Flatten(_)
Flatten(ss) == IF ss = << >> THEN << >> ELSE Head(ss) \o Flatten(Tail(ss))

Init ==
    /\ pop_size = 0
    /\ rank_graphs = << >>
    /\ graph_ranks = << >>
    /\ cpc = "new"
    /\ op = None
    /\ exit_called = FALSE
    /\ tr = NoTrain
    /\ ga = NoGet
    /\ best_num = NoNum
    /\ result = None
    /\ toWorker = [r \in Ranks |-> << >>]
    /\ toMaster = [r \in Ranks |-> << >>]
    /\ wstate = [r \in Ranks |-> "Uninit"]
    /\ wrange = [r \in Ranks |-> <<0, 0>>]
    /\ graphs = [r \in Ranks |-> EmptyMap]
    /\ call_log = NoLog
    /\ sent_log = NoLog
    /\ recvd = ZeroCount
    /\ round_no = 0
    /\ start_zero = FALSE
    /\ exploit_no = 0
    /\ train_calls = EmptyMap

\* Cluster(pop, comm, {rank: device for rank in 1..W})
Construct(pop, W) ==
    /\ cpc = "new"
    /\ op' = "__init__"
    /\ IF W = 0
       THEN \* line 119: ZeroDivisionError
            /\ cpc' = "failed"
            /\ UNCHANGED <<cluster, toWorker>>
       ELSE LET parts == Partition(pop, W)
            IN  /\ pop_size' = pop
                /\ rank_graphs' = [r \in 1..W |-> Range(parts[r][1], parts[r][2])]
                /\ graph_ranks' =
                       Flatten([r \in 1..W |->
                                [i \in 1..Len(Range(parts[r][1], parts[r][2])) |-> r]])
                /\ toWorker' = [r \in Ranks |->
                       IF r <= W
                       THEN Append(toWorker[r],
                                Msg(SETUP, << >>, << >>, EmptyMap,
                                    parts[r][1], parts[r][2]))
                       ELSE toWorker[r]]
                /\ cpc' = "constructed"
    /\ UNCHANGED <<exit_called, tr, ga, best_num, result, toMaster, wvars,
                   callghost, trainghost, train_calls>>

\* ------------------------------------------------------------------ worker
Owned(r) == DOMAIN graphs[r]

\* lines 64-68: the one-time (device, start_num, end_num) message
WorkerSetup(r) ==
    /\ wstate[r] = "Uninit"
    /\ toWorker[r] # << >>
    /\ LET data == Head(toWorker[r])
       IN  /\ wrange' = [wrange EXCEPT ![r] = <<data.start, data.end>>]
           /\ graphs' = [graphs EXCEPT ![r] =
                  [num \in data.start..(data.end - 1) |-> ConvNet(num)]]
    /\ wstate' = [wstate EXCEPT ![r] = "Ready"]
    /\ toWorker' = [toWorker EXCEPT ![r] = Tail(@)]
    /\ UNCHANGED <<cluster, cpc, op, exit_called, tr, ga, best_num, result,
                   toMaster, call_log, callghost, trainghost, train_calls>>

\* lines 70-73
WorkerExit(r) ==
    /\ wstate[r] = "Ready"
    /\ toWorker[r] # << >>
    /\ Head(toWorker[r]).instr = EXIT
    /\ wstate' = [wstate EXCEPT ![r] = "Exited"]
    /\ toWorker' = [toWorker EXCEPT ![r] = Tail(@)]
    /\ UNCHANGED <<cluster, cpc, op, exit_called, tr, ga, best_num, result,
                   toMaster, wrange, graphs, call_log, callghost, trainghost,
                   train_calls>>

\* lines 74-76; VS and AS are the values and accuracies initialize_variables
\* may leave in the worker's graphs
WorkerInitWith(r, VS, AS) ==
    /\ wstate[r] = "Ready"
    /\ toWorker[r] # << >>
    /\ Head(toWorker[r]).instr = INIT
    /\ \E v \in VS, a \in AS :
           graphs' = [graphs EXCEPT ![r] =
               [num \in Owned(r) |->
                   ConvNet_initialize_variables(graphs[r][num], v[num], a[num])]]
    /\ toWorker' = [toWorker EXCEPT ![r] = Tail(@)]
    /\ UNCHANGED <<cluster, cpc, op, exit_called, tr, ga, best_num, result,
                   toMaster, wstate, wrange, call_log, callghost, trainghost,
                   train_calls>>

WorkerInit(r) == WorkerInitWith(r, [Owned(r) -> Values], [Owned(r) -> Accs])

\* outcomes by profile: accuracies rising, falling or equal in the graph
\* number, values shifted round the value set
AccProfiles(S) ==
    {[num \in S |-> num], [num \in S |-> pop_size - num], [num \in S |-> 0]}
ValProfiles(S) == {[num \in S |-> (num + k) % (MaxVal + 1)] : k \in Values}

WorkerInitProfiled(r) ==
    WorkerInitWith(r, ValProfiles(Owned(r)), AccProfiles(Owned(r)))

\* lines 85-89: the reply {num: tuple(getter(graphs[num]) ...) for num in nums}
Reply(gs, nums, attribute_list) ==
    [num \in Elems(nums) |->
        [j \in 1..Len(attribute_list) |-> GETTERS(attribute_list[j], gs[num])]]

\* no comm.send when nums is empty
WorkerGetSilent(r) ==
    /\ wstate[r] = "Ready"
    /\ toWorker[r] # << >>
    /\ Head(toWorker[r]).instr = GET
    /\ LET data == Head(toWorker[r])
       IN  IF data.nums = << >>
           THEN UNCHANGED <<toMaster, wstate>>
           ELSE IF Elems(data.nums) \subseteq Owned(r)
           THEN /\ toMaster' = [toMaster EXCEPT ![r] =
                       Append(@, Reply(graphs[r], data.nums, data.attrs))]
                /\ UNCHANGED wstate
           ELSE /\ wstate' = [wstate EXCEPT ![r] = "Crashed"]
                /\ UNCHANGED toMaster
    /\ toWorker' = [toWorker EXCEPT ![r] = Tail(@)]
    /\ UNCHANGED <<cluster, cpc, op, exit_called, tr, ga, best_num, result,
                   wrange, graphs, call_log, callghost, trainghost, train_calls>>

\* lines 77, 85-89 for Instruction.GET
WorkerGet(r) ==
    /\ wstate[r] = "Ready"
    /\ toWorker[r] # << >>
    /\ Head(toWorker[r]).instr = GET
    /\ LET data == Head(toWorker[r])
       IN  IF Elems(data.nums) \subseteq Owned(r)
           THEN /\ toMaster' = [toMaster EXCEPT ![r] =
                       Append(@, Reply(graphs[r], data.nums, data.attrs))]
                /\ UNCHANGED wstate
           ELSE \* graphs[num]: KeyError
                /\ wstate' = [wstate EXCEPT ![r] = "Crashed"]
                /\ UNCHANGED toMaster
    /\ toWorker' = [toWorker EXCEPT ![r] = Tail(@)]
    /\ UNCHANGED <<cluster, cpc, op, exit_called, tr, ga, best_num, result,
                   wrange, graphs, call_log, callghost, trainghost, train_calls>>

\* lines 78-82: set_value and explore for every entry of new_values
Replaced(gs, vals) ==
    [num \in DOMAIN gs |->
        IF num \in DOMAIN vals
        THEN ConvNet_explore(ConvNet_set_value(gs[num], vals[num]))
        ELSE gs[num]]

\* the loop stops after the first graph of the worker
TrainedFirst(gs, v, a) ==
    [num \in DOMAIN gs |->
        IF \A m \in DOMAIN gs : num <= m
        THEN ConvNet_train(gs[num], v[num], a[num]) ELSE gs[num]]

\* lines 83-84: every graph of the worker takes one training step
Trained(gs, v, a) ==
    [num \in DOMAIN gs |-> ConvNet_train(gs[num], v[num], a[num])]

\* the ConvNet calls over a dict that was filled in ascending graph number
Call(method, num, arg) == [method |-> method, num |-> num, arg |-> arg]
RECURSIVE SetValueCalls(_)
SetValueCalls(vals) ==
    IF DOMAIN vals = {} THEN << >>
    ELSE LET num == CHOOSE n \in DOMAIN vals : \A m \in DOMAIN vals : n <= m
         IN  <<Call("set_value", num, vals[num]), Call("explore", num, NoNum)>>
             \o SetValueCalls([m \in DOMAIN vals \ {num} |-> vals[m]])
RECURSIVE TrainCalls(_)
TrainCalls(gs) ==
    IF DOMAIN gs = {} THEN << >>
    ELSE LET num == CHOOSE n \in DOMAIN gs : \A m \in DOMAIN gs : n <= m
         IN  <<Call("train", num, NoNum)>>
             \o TrainCalls([m \in DOMAIN gs \ {num} |-> gs[m]])

\* the graphs are trained first and the new values copied afterwards
CopyTrainCallsTrainFirst(gs, vals) == TrainCalls(gs) \o SetValueCalls(vals)

\* lines 80-84: the ConvNet calls of one COPY_TRAIN_GET, in order
CopyTrainCalls(gs, vals) == SetValueCalls(vals) \o TrainCalls(gs)

\* lines 78-89 for Instruction.COPY_TRAIN_GET; VS and AS are the values and
\* accuracies train may leave in the worker's graphs
WorkerCopyTrainGetWith(r, VS, AS) ==
    /\ wstate[r] = "Ready"
    /\ toWorker[r] # << >>
    /\ Head(toWorker[r]).instr = COPY_TRAIN_GET
    /\ LET data == Head(toWorker[r])
       IN  IF ~(DOMAIN data.new_values \subseteq Owned(r))
           THEN \* graphs[num]: KeyError
                /\ wstate' = [wstate EXCEPT ![r] = "Crashed"]
                /\ UNCHANGED <<toMaster, graphs, call_log, train_calls>>
           ELSE \E v \in VS, a \in AS :
                LET gs == Trained(Replaced(graphs[r], data.new_values), v, a)
                IN  /\ graphs' = [graphs EXCEPT ![r] = gs]
                    /\ call_log' = [call_log EXCEPT ![r] =
                           CopyTrainCalls(graphs[r], data.new_values)]
                    /\ train_calls' =
                           [num \in DOMAIN train_calls |->
                               IF num \in Owned(r) THEN train_calls[num] + 1
                               ELSE train_calls[num]]
                    /\ IF Elems(data.nums) \subseteq Owned(r)
                       THEN /\ toMaster' = [toMaster EXCEPT ![r] =
                                   Append(@, Reply(gs, data.nums, data.attrs))]
                            /\ UNCHANGED wstate
                       ELSE /\ wstate' = [wstate EXCEPT ![r] = "Crashed"]
                            /\ UNCHANGED toMaster
    /\ toWorker' = [toWorker EXCEPT ![r] = Tail(@)]
    /\ UNCHANGED <<cluster, cpc, op, exit_called, tr, ga, best_num, result,
                   wrange, callghost, trainghost>>

WorkerCopyTrainGet(r) ==
    WorkerCopyTrainGetWith(r, [Owned(r) -> Values], [Owned(r) -> Accs])

WorkerCopyTrainGetProfiled(r) ==
    WorkerCopyTrainGetWith(r, ValProfiles(Owned(r)), AccProfiles(Owned(r)))

\* ------------------------------------------------- Cluster.get_attributes
\* rank_graphs[rank] = [num] also when the rank is already a key
RECURSIVE GroupLoopOverwrite(_, _, _)
GroupLoopOverwrite(graph_nums, keys, lists) ==
    IF graph_nums = << >> THEN [keys |-> keys, lists |-> lists]
    ELSE LET num == Head(graph_nums)
             rank == graph_ranks[num + 1]
         IN  GroupLoopOverwrite(Tail(graph_nums),
                 IF rank \in Elems(keys) THEN keys ELSE Append(keys, rank),
                 Update(lists, [k \in {rank} |-> <<num>>]))

\* lines 230-236: the requested numbers grouped by owning rank, keys in the
\* order the ranks first appear
RECURSIVE GroupLoop(_, _, _)
GroupLoop(graph_nums, keys, lists) ==
    IF graph_nums = << >> THEN [keys |-> keys, lists |-> lists]
    ELSE LET num == Head(graph_nums)
             rank == graph_ranks[num + 1]
         IN  IF rank \in Elems(keys)
             THEN GroupLoop(Tail(graph_nums), keys,
                            [lists EXCEPT ![rank] = Append(@, num)])
             ELSE GroupLoop(Tail(graph_nums), Append(keys, rank),
                            Update(lists, [k \in {rank} |-> <<num>>]))

GroupByRank(graph_nums) == GroupLoop(graph_nums, << >>, EmptyMap)

\* lines 226-242: choose the numbers, send one GET per rank of the local dict
GaStart(attribute_ids, arg_nums, ret, log) ==
    \E graph_nums \in {IF arg_nums = NoNums THEN Range(0, pop_size) ELSE arg_nums} :
    \E grouped \in {IF arg_nums = NoNums
                     THEN [keys |-> [r \in DOMAIN rank_graphs |-> r],
                           lists |-> rank_graphs]
                     ELSE GroupByRank(graph_nums)} :
    \E sends \in {[r \in Elems(grouped.keys) |->
                      Msg(GET, grouped.lists[r], attribute_ids, EmptyMap, 0, 0)]} :
        /\ toWorker' = [r \in Ranks |->
               IF r \in DOMAIN sends THEN Append(toWorker[r], sends[r])
               ELSE toWorker[r]]
        /\ sent_log' = [r \in Ranks |->
               IF r \in DOMAIN sends THEN Append(log[r], sends[r]) ELSE log[r]]
        /\ ga' = [attribute_ids |-> attribute_ids, graph_nums |-> graph_nums,
                  arg_nums |-> arg_nums, pending |-> grouped.keys,
                  attributes_dict |-> EmptyMap, ret |-> ret, result |-> << >>]
        /\ cpc' = IF grouped.keys = << >> THEN ret ELSE "ga_recv"

\* the list in ascending graph number instead of the order of graph_nums
AttributesListAscending(graph_nums, d) ==
    [i \in 1..Len(graph_nums) |->
        d[CHOOSE num \in Elems(graph_nums) :
              Cardinality({m \in Elems(graph_nums) : m < num}) = i - 1]]

\* line 247 (and 209): [attributes_dict[num] for num in graph_nums]
AttributesList(graph_nums, d) == [i \in 1..Len(graph_nums) |-> d[graph_nums[i]]]

\* lines 243-247: one blocking recv per rank, in key order, then the list
GaRecv ==
    /\ cpc = "ga_recv"
    /\ ga.pending # << >>
    /\ LET rank == Head(ga.pending)
       IN  /\ toMaster[rank] # << >>
           /\ LET d == Update(ga.attributes_dict, Head(toMaster[rank]))
                  rest == Tail(ga.pending)
              IN  IF rest # << >>
                  THEN /\ ga' = [ga EXCEPT !.pending = rest, !.attributes_dict = d]
                       /\ UNCHANGED cpc
                  ELSE IF Elems(ga.graph_nums) \subseteq DOMAIN d
                  THEN /\ ga' = [ga EXCEPT !.pending = rest, !.attributes_dict = d,
                                 !.result = AttributesList(ga.graph_nums, d)]
                       /\ cpc' = ga.ret
                  ELSE \* attributes_dict[num]: KeyError
                       /\ ga' = [ga EXCEPT !.pending = rest, !.attributes_dict = d]
                       /\ cpc' = "failed"
           /\ toMaster' = [toMaster EXCEPT ![rank] = Tail(@)]
           /\ recvd' = [recvd EXCEPT ![rank] = @ + 1]
    /\ UNCHANGED <<cluster, op, exit_called, tr, best_num, result, toWorker,
                   wvars, sent_log, trainghost, train_calls>>

\* the given numbers are appended to the lists of self.rank_graphs
get_attributesAliased(attribute_ids, arg_nums) ==
    /\ op' = "get_attributes"
    /\ GaStart(attribute_ids, arg_nums, "returned", sent_log)
    /\ rank_graphs' =
           IF arg_nums = NoNums THEN rank_graphs
           ELSE [r \in DOMAIN rank_graphs |->
                    LET Mine(num) == graph_ranks[num + 1] = r
                    IN  rank_graphs[r] \o SelectSeq(arg_nums, Mine)]
    /\ UNCHANGED <<pop_size, graph_ranks, exit_called, tr, best_num, result,
                   toMaster, wvars, recvd, trainghost, train_calls>>

\* lines 214-242
get_attributes(attribute_ids, arg_nums) ==
    /\ op' = "get_attributes"
    /\ GaStart(attribute_ids, arg_nums, "returned", sent_log)
    /\ UNCHANGED <<cluster, exit_called, tr, best_num, result, toMaster, wvars,
                   recvd, trainghost, train_calls>>

\* --------------------------------------------- Cluster.initialize_variables
initialize_variables ==
    /\ op' = "initialize_variables"
    /\ LET sends == [r \in DOMAIN rank_graphs |->
                        Msg(INIT, << >>, << >>, EmptyMap, 0, 0)]
       IN  /\ toWorker' = [r \in Ranks |->
                  IF r \in DOMAIN sends THEN Append(toWorker[r], sends[r])
                  ELSE toWorker[r]]
           /\ sent_log' = [r \in Ranks |->
                  IF r \in DOMAIN sends THEN Append(sent_log[r], sends[r])
                  ELSE sent_log[r]]
    /\ cpc' = "returned"
    /\ UNCHANGED <<cluster, exit_called, tr, ga, best_num, result, toMaster, wvars,
                   recvd, trainghost, train_calls>>

\* ----------------------------------------------------- Cluster.exit_workers
\* sends EXIT to the first worker only
exit_workersFirst ==
    /\ op' = "exit_workers"
    /\ exit_called' = TRUE
    /\ toWorker' = [toWorker EXCEPT ![1] = Append(@, Msg(EXIT, << >>, << >>, EmptyMap, 0, 0))]
    /\ sent_log' = [sent_log EXCEPT ![1] = Append(@, Msg(EXIT, << >>, << >>, EmptyMap, 0, 0))]
    /\ cpc' = "returned"
    /\ UNCHANGED <<cluster, tr, ga, best_num, result, toMaster, wvars,
                   recvd, trainghost, train_calls>>

exit_workers ==
    /\ op' = "exit_workers"
    /\ exit_called' = TRUE
    /\ LET sends == [r \in DOMAIN rank_graphs |->
                        Msg(EXIT, << >>, << >>, EmptyMap, 0, 0)]
       IN  /\ toWorker' = [r \in Ranks |->
                  IF r \in DOMAIN sends THEN Append(toWorker[r], sends[r])
                  ELSE toWorker[r]]
           /\ sent_log' = [r \in Ranks |->
                  IF r \in DOMAIN sends THEN Append(sent_log[r], sends[r])
                  ELSE sent_log[r]]
    /\ cpc' = "returned"
    /\ UNCHANGED <<cluster, tr, ga, best_num, result, toMaster, wvars,
                   recvd, trainghost, train_calls>>

\* --------------------------------------------------- Cluster.get_population
get_population ==
    /\ op' = "get_population"
    /\ GaStart(<<VALUE>>, NoNums, "pop_ret", sent_log)
    /\ UNCHANGED <<cluster, exit_called, tr, best_num, result, toMaster, wvars,
                   recvd, trainghost, train_calls>>

\* lines 144-149
PopulationReturn ==
    /\ cpc = "pop_ret"
    /\ result' = [i \in 1..pop_size |->
                     ConvNet_set_value(ConvNet(i - 1), ga.result[i][1])]
    /\ cpc' = "returned"
    /\ UNCHANGED <<cluster, op, exit_called, tr, ga, best_num, toWorker, toMaster,
                   wvars, callghost, trainghost, train_calls>>

\* ----------------------------------------- Cluster.get_highest_metric_graph
get_highest_metric_graph ==
    /\ op' = "get_highest_metric_graph"
    /\ GaStart(<<ACCURACY>>, NoNums, "ghm_ret", sent_log)
    /\ UNCHANGED <<cluster, exit_called, tr, best_num, result, toMaster, wvars,
                   recvd, trainghost, train_calls>>

\* accuracy >= best_acc: the last of several equal accuracies wins
RECURSIVE BestScanLast(_, _, _)
BestScanLast(num, b, attrs) ==
    IF num >= Len(attrs) THEN b
    ELSE LET accuracy == attrs[num + 1][1]
         IN  IF b[1] = NoNum \/ accuracy >= b[2]
             THEN BestScanLast(num + 1, <<num, accuracy>>, attrs)
             ELSE BestScanLast(num + 1, b, attrs)

\* lines 153-159: scan from num on, b is <<best_num, best_acc>>
RECURSIVE BestScan(_, _, _)
BestScan(num, b, attrs) ==
    IF num >= Len(attrs) THEN b
    ELSE LET accuracy == attrs[num + 1][1]
         IN  IF b[1] = NoNum \/ accuracy > b[2]
             THEN BestScan(num + 1, <<num, accuracy>>, attrs)
             ELSE BestScan(num + 1, b, attrs)

\* lines 153-162
HighestSend ==
    /\ cpc = "ghm_ret"
    /\ LET b == BestScan(0, <<NoNum, NoNum>>, ga.result)
       IN  IF b[1] = NoNum
           THEN \* graph_ranks[None]: TypeError
                /\ cpc' = "failed"
                /\ UNCHANGED <<best_num, toWorker, sent_log>>
           ELSE LET best_rank == graph_ranks[b[1] + 1]
                    m == Msg(GET, <<b[1]>>, <<VALUE>>, EmptyMap, 0, 0)
                IN  /\ best_num' = b[1]
                    /\ toWorker' = [toWorker EXCEPT ![best_rank] = Append(@, m)]
                    /\ sent_log' = [sent_log EXCEPT ![best_rank] = Append(@, m)]
                    /\ cpc' = "ghm_recv"
    /\ UNCHANGED <<cluster, op, exit_called, tr, ga, result, toMaster, wvars,
                   recvd, trainghost, train_calls>>

\* lines 163-164
HighestRecv ==
    /\ cpc = "ghm_recv"
    /\ LET best_rank == graph_ranks[best_num + 1]
       IN  /\ toMaster[best_rank] # << >>
           /\ result' = ConvNet_set_value(ConvNet(best_num),
                                          Head(toMaster[best_rank])[best_num][1])
           /\ toMaster' = [toMaster EXCEPT ![best_rank] = Tail(@)]
           /\ recvd' = [recvd EXCEPT ![best_rank] = @ + 1]
    /\ cpc' = "returned"
    /\ UNCHANGED <<cluster, op, exit_called, tr, ga, best_num, toWorker, wvars,
                   sent_log, trainghost, train_calls>>

\* ------------------------------------------ Cluster._exploit_and_or_explore
\* sorted() is stable: num goes behind every entry whose accuracy is not greater
RECURSIVE Insert(_, _, _)
Insert(num, ranked, attrs) ==
    IF ranked = << >> THEN <<num>>
    ELSE IF attrs[Head(ranked) + 1][2] <= attrs[num + 1][2]
         THEN <<Head(ranked)>> \o Insert(num, Tail(ranked), attrs)
         ELSE <<num>> \o ranked

\* line 172: sorted(range(pop_size), key=lambda num: attributes[num][1]),
\* the numbers below n already placed
RECURSIVE SortedNums(_, _)
SortedNums(n, attrs) ==
    IF n = 0 THEN << >> ELSE Insert(n - 1, SortedNums(n - 1, attrs), attrs)

\* math.ceil(0.2 * n), math.floor(0.8 * n)
Ceil02(n) == CeilDiv(n, 5)
\* 0.8 * n rounded up
Floor08Ceil(n) == CeilDiv(4 * n, 5)

Floor08(n) == (4 * n) \div 5

\* line 174
WorstNums(ranked_nums) == SubSeq(ranked_nums, 1, Ceil02(Len(ranked_nums)))
\* line 175
BestNums(ranked_nums) ==
    SubSeq(ranked_nums, Floor08(Len(ranked_nums)) + 1, Len(ranked_nums))

\* worst[i] paired with the best from the other end
NewValuesReversed(worst, best_attributes) ==
    [num \in Elems(worst) |->
        best_attributes[Len(worst) + 1 -
                        (CHOOSE i \in 1..Len(worst) : worst[i] = num)][1]]

\* lines 177-179
NewValues(worst, best_attributes) ==
    [num \in Elems(worst) |->
        best_attributes[CHOOSE i \in 1..Len(worst) : worst[i] = num][1]]

\* ------------------------------------------------------------ Cluster.train
AllStepsZero ==
    \A r \in Ranks : \A num \in DOMAIN graphs[r] : graphs[r][num].step_num = 0

\* lines 183-184
train(N) ==
    /\ op' = "train"
    /\ GaStart(<<STEP_NUM, ACCURACY>>, NoNums, "train_ga_ret", sent_log)
    /\ tr' = [NoTrain EXCEPT !.until_step_num = N]
    /\ start_zero' = AllStepsZero
    /\ train_calls' = [num \in 0..(pop_size - 1) |-> 0]
    /\ UNCHANGED <<cluster, exit_called, best_num, result, toMaster, wvars,
                   recvd, round_no, exploit_no>>

\* line 184: attributes = self.get_attributes(attribute_ids)
TrainGot ==
    /\ cpc = "train_ga_ret"
    /\ tr' = [tr EXCEPT !.attributes = ga.result]
    /\ cpc' = "train_loop"
    /\ UNCHANGED <<cluster, op, exit_called, ga, best_num, result, toWorker,
                   toMaster, wvars, callghost, trainghost, train_calls>>

\* step_num < until_step_num - 1: stops one round early
KeepTrainingEarly(attrs, N) == \E i \in 1..Len(attrs) : attrs[i][1] < N - 1

\* lines 186-191
KeepTraining(attrs, N) == \E i \in 1..Len(attrs) : attrs[i][1] < N
\* step_num >= 0: exploits in the first round too
MustExploitFromZero(attrs, N) ==
    \E i \in 1..Len(attrs) : attrs[i][1] < N /\ attrs[i][1] >= 0

\* lines 190-194: some graph below the target has already taken a step
MustExploit(attrs, N) == \E i \in 1..Len(attrs) : attrs[i][1] < N /\ attrs[i][1] > 0

\* the for loop without its break: one call per graph that is under way
RECURSIVE ExploitLoopNoBreak(_, _, _)
ExploitLoopNoBreak(i, attrs, N) ==
    IF i > Len(attrs) THEN 0
    ELSE (IF attrs[i][1] < N /\ attrs[i][1] > 0 THEN 1 ELSE 0)
         + ExploitLoopNoBreak(i + 1, attrs, N)

\* lines 188-196: the calls of _exploit_and_or_explore the for loop makes from
\* position i on; it breaks after the first
RECURSIVE ExploitLoop(_, _, _)
ExploitLoop(i, attrs, N) ==
    IF i > Len(attrs) THEN 0
    ELSE IF attrs[i][1] < N /\ attrs[i][1] > 0 THEN 1
    ELSE ExploitLoop(i + 1, attrs, N)

\* lines 185-197 and 211-212, with lines 166-176 when the exploit is due
TrainLoop ==
    /\ cpc = "train_loop"
    /\ exploit_no' = ExploitLoop(1, tr.attributes, tr.until_step_num)
    /\ IF ~KeepTraining(tr.attributes, tr.until_step_num)
       THEN /\ cpc' = "returned"
            /\ tr' = [tr EXCEPT !.new_values = EmptyMap, !.exploited = FALSE]
            /\ UNCHANGED <<ga, toWorker, sent_log>>
       ELSE IF ~MustExploit(tr.attributes, tr.until_step_num)
       THEN /\ cpc' = "train_send"
            /\ tr' = [tr EXCEPT !.new_values = EmptyMap, !.exploited = FALSE]
            /\ UNCHANGED <<ga, toWorker, sent_log>>
       ELSE IF pop_size > 1
       THEN \E ranked_nums \in {SortedNums(pop_size, tr.attributes)} :
            \E best \in {BestNums(ranked_nums)} :
                /\ tr' = [tr EXCEPT !.new_values = EmptyMap, !.exploited = TRUE,
                                    !.worst_nums = WorstNums(ranked_nums),
                                    !.best_nums = best]
                /\ GaStart(<<VALUE>>, best, "exploit_ret", sent_log)
       ELSE /\ cpc' = "train_send"
            /\ tr' = [tr EXCEPT !.new_values = EmptyMap, !.exploited = TRUE]
            /\ UNCHANGED <<ga, toWorker, sent_log>>
    /\ UNCHANGED <<cluster, op, exit_called, best_num, result, toMaster, wvars,
                   recvd, round_no, start_zero, train_calls>>

\* lines 177-180
ExploitReturn ==
    /\ cpc = "exploit_ret"
    /\ IF Len(tr.worst_nums) > Len(ga.result)
       THEN \* best_attributes[i]: IndexError
            /\ cpc' = "failed"
            /\ UNCHANGED tr
       ELSE /\ tr' = [tr EXCEPT !.new_values = NewValues(tr.worst_nums, ga.result)]
            /\ cpc' = "train_send"
    /\ UNCHANGED <<cluster, op, exit_called, ga, best_num, result, toWorker,
                   toMaster, wvars, callghost, trainghost, train_calls>>

\* every worker is sent the whole of new_values
RankNewValuesAll(graph_list, vals) == vals

\* line 202
RankNewValues(graph_list, vals) ==
    [num \in Elems(graph_list) \cap DOMAIN vals |-> vals[num]]

\* lines 199-206
TrainSend ==
    /\ cpc = "train_send"
    /\ LET sends == [r \in DOMAIN rank_graphs |->
                        Msg(COPY_TRAIN_GET, rank_graphs[r], <<STEP_NUM, ACCURACY>>,
                            RankNewValues(rank_graphs[r], tr.new_values), 0, 0)]
       IN  /\ toWorker' = [r \in Ranks |->
                  IF r \in DOMAIN sends THEN Append(toWorker[r], sends[r])
                  ELSE toWorker[r]]
           /\ sent_log' = [r \in Ranks |->
                  IF r \in DOMAIN sends THEN Append(sent_log[r], sends[r])
                  ELSE sent_log[r]]
    /\ tr' = [tr EXCEPT !.pending = [r \in DOMAIN rank_graphs |-> r],
                        !.attributes_dict = EmptyMap]
    /\ round_no' = round_no + 1
    /\ cpc' = "train_recv"
    /\ UNCHANGED <<cluster, op, exit_called, ga, best_num, result, toMaster,
                   wvars, recvd, start_zero, exploit_no, train_calls>>

\* keeps the attributes of the call's first get_attributes for every round
TrainRecvStale ==
    /\ cpc = "train_recv"
    /\ tr.pending # << >>
    /\ LET rank == Head(tr.pending)
       IN  /\ toMaster[rank] # << >>
           /\ tr' = [tr EXCEPT !.pending = Tail(tr.pending),
                               !.attributes_dict =
                                   Update(tr.attributes_dict, Head(toMaster[rank]))]
           /\ cpc' = IF Tail(tr.pending) # << >> THEN cpc ELSE "train_loop"
           /\ toMaster' = [toMaster EXCEPT ![rank] = Tail(@)]
           /\ recvd' = [recvd EXCEPT ![rank] = @ + 1]
    /\ UNCHANGED <<cluster, op, exit_called, ga, best_num, result, toWorker,
                   wvars, sent_log, trainghost, train_calls>>

\* goes on after the first reply of the round, without waiting for the others
TrainRecvNoBarrier ==
    /\ cpc = "train_recv"
    /\ tr.pending # << >>
    /\ LET rank == Head(tr.pending)
       IN  /\ toMaster[rank] # << >>
           /\ LET d == Update(tr.attributes_dict, Head(toMaster[rank]))
              IN  /\ tr' = [tr EXCEPT !.pending = << >>, !.attributes_dict = d,
                                !.attributes =
                                    [i \in 1..pop_size |->
                                        IF i - 1 \in DOMAIN d THEN d[i - 1]
                                        ELSE tr.attributes[i]]]
                  /\ cpc' = "train_loop"
           /\ toMaster' = [toMaster EXCEPT ![rank] = Tail(@)]
           /\ recvd' = [recvd EXCEPT ![rank] = @ + 1]
    /\ UNCHANGED <<cluster, op, exit_called, ga, best_num, result, toWorker,
                   wvars, sent_log, trainghost, train_calls>>

\* lines 207-210
TrainRecv ==
    /\ cpc = "train_recv"
    /\ tr.pending # << >>
    /\ LET rank == Head(tr.pending)
       IN  /\ toMaster[rank] # << >>
           /\ LET d == Update(tr.attributes_dict, Head(toMaster[rank]))
                  rest == Tail(tr.pending)
              IN  IF rest # << >>
                  THEN /\ tr' = [tr EXCEPT !.pending = rest, !.attributes_dict = d]
                       /\ UNCHANGED cpc
                  ELSE IF 0..(pop_size - 1) \subseteq DOMAIN d
                  THEN /\ tr' = [tr EXCEPT !.pending = rest, !.attributes_dict = d,
                                 !.attributes = AttributesList(Range(0, pop_size), d)]
                       /\ cpc' = "train_loop"
                  ELSE \* attributes_dict[num]: KeyError
                       /\ tr' = [tr EXCEPT !.pending = rest, !.attributes_dict = d]
                       /\ cpc' = "failed"
           /\ toMaster' = [toMaster EXCEPT ![rank] = Tail(@)]
           /\ recvd' = [recvd EXCEPT ![rank] = @ + 1]
    /\ UNCHANGED <<cluster, op, exit_called, ga, best_num, result, toWorker,
                   wvars, sent_log, trainghost, train_calls>>

\* ------------------------------------------------------------ the callers
\* attribute lists and graph-number lists the callers pass to get_attributes
AttrLists == {<<STEP_NUM, UPDATE_HISTORY, ACCURACY>>, <<VALUE, STEP_NUM>>,
              <<ACCURACY>>}

NumLists ==
    {NoNums} \cup
    UNION {{s \in [1..n -> 0..(pop_size - 1)] :
               \A i, j \in 1..n : i # j => s[i] # s[j]} : n \in 0..MaxNums}

\* a method has returned: its locals are gone and the caller goes on
Return ==
    /\ cpc = "returned"
    /\ cpc' = "idle"
    /\ op' = None
    /\ tr' = NoTrain
    /\ ga' = NoGet
    /\ best_num' = NoNum
    /\ result' = None
    /\ sent_log' = NoLog
    /\ recvd' = ZeroCount
    /\ round_no' = 0
    /\ start_zero' = FALSE
    /\ exploit_no' = 0
    /\ train_calls' = EmptyMap
    /\ call_log' = NoLog
    /\ UNCHANGED <<cluster, exit_called, toWorker, toMaster, wstate, wrange, graphs>>

\* the methods are called one at a time, initialize_variables first, and none
\* after exit_workers (lines 254, 267-283)
Idle == cpc = "idle" /\ ~exit_called

CallConstruct == \E pop \in 0..MaxPop, W \in 0..MaxW : Construct(pop, W)
CallInitializeVariables == cpc = "constructed" /\ initialize_variables
CallTrain == Idle /\ \E N \in 0..MaxStep : train(N)
CallGetAttributes ==
    Idle /\ \E attribute_ids \in AttrLists, nums \in NumLists :
                get_attributes(attribute_ids, nums)
CallGetPopulation == Idle /\ get_population
CallGetHighestMetricGraph == Idle /\ get_highest_metric_graph
CallExitWorkers == (cpc = "constructed" \/ Idle) /\ exit_workers

\* a caller that ignores line 254 and goes on after exit_workers
CallAfterExit ==
    /\ cpc = "idle"
    /\ exit_called
    /\ \A r \in Ranks : Len(toWorker[r]) < MaxBacklog
    /\ \/ initialize_variables
       \/ \E N \in 0..MaxStep : train(N)
       \/ \E attribute_ids \in AttrLists, nums \in NumLists :
              get_attributes(attribute_ids, nums)
       \/ get_population
       \/ get_highest_metric_graph
       \/ exit_workers

Coordinator ==
    \/ GaRecv \/ PopulationReturn \/ HighestSend \/ HighestRecv
    \/ TrainGot \/ TrainLoop \/ ExploitReturn \/ TrainSend \/ TrainRecv

Worker(r) ==
    \/ WorkerSetup(r) \/ WorkerExit(r) \/ WorkerInit(r)
    \/ WorkerGet(r) \/ WorkerCopyTrainGet(r)

Calls ==
    \/ CallConstruct \/ CallInitializeVariables \/ CallTrain
    \/ CallGetAttributes \/ CallGetPopulation \/ CallGetHighestMetricGraph
    \/ CallExitWorkers \/ Return

Next == Calls \/ Coordinator \/ \E r \in Ranks : Worker(r)

Spec == Init /\ [][Next]_vars

NextMisuse == Next \/ CallAfterExit

SpecMisuse == Init /\ [][NextMisuse]_vars

\* train alone, with every process scheduled fairly: a worker blocked in
\* comm.recv proceeds when a message is there, and so does the Cluster
TrainSteps ==
    \/ GaRecv \/ TrainGot \/ TrainLoop \/ ExploitReturn \/ TrainSend \/ TrainRecv

ProfiledWorker(r) ==
    \/ WorkerSetup(r) \/ WorkerExit(r) \/ WorkerInitProfiled(r)
    \/ WorkerGet(r) \/ WorkerCopyTrainGetProfiled(r)

NextTrain ==
    \/ CallConstruct \/ CallInitializeVariables \/ CallTrain \/ CallExitWorkers
    \/ Return \/ TrainSteps \/ \E r \in Ranks : ProfiledWorker(r)

FairSpec ==
    /\ Init
    /\ [][NextTrain]_vars
    /\ WF_vars(TrainSteps)
    /\ \A r \in Ranks : WF_vars(ProfiledWorker(r))

\* train on the population sizes of the exploit scenarios
RankedPops == {1, 6, 10}
CallConstructRanked == \E pop \in RankedPops, W \in 0..MaxW : Construct(pop, W)

NextRanked ==
    \/ CallConstructRanked \/ CallInitializeVariables \/ CallTrain
    \/ CallExitWorkers \/ Return \/ TrainSteps \/ \E r \in Ranks : ProfiledWorker(r)

SpecRanked == Init /\ [][NextRanked]_vars

\* train on every population size from 2 to MaxGroupPop, on one worker
CallConstructGroups == \E pop \in 2..MaxGroupPop : Construct(pop, 1)

NextGroups ==
    \/ CallConstructGroups \/ CallInitializeVariables \/ CallTrain
    \/ CallExitWorkers \/ Return \/ TrainSteps \/ \E r \in Ranks : ProfiledWorker(r)

SpecGroups == Init /\ [][NextGroups]_vars

\* lines 263-286: the run of the module, process 0 the Cluster and the others
\* workers; the Cluster has MainPop graphs, the number of workers and the
\* training target vary
MainPop == 3

\* a method has returned to the main sequence, which remembers it in op
MainReturn ==
    /\ cpc = "returned"
    /\ cpc' = "idle"
    /\ tr' = NoTrain
    /\ ga' = NoGet
    /\ best_num' = NoNum
    /\ result' = None
    /\ sent_log' = NoLog
    /\ recvd' = ZeroCount
    /\ round_no' = 0
    /\ start_zero' = FALSE
    /\ exploit_no' = 0
    /\ train_calls' = EmptyMap
    /\ call_log' = NoLog
    /\ UNCHANGED <<cluster, op, exit_called, toWorker, toMaster, wstate, wrange,
                   graphs>>

After(method) == cpc = "idle" /\ op = method

MainConstruct == \E W \in 1..MaxW : Construct(MainPop, W)
MainInitializeVariables == cpc = "constructed" /\ initialize_variables
MainTrain == After("initialize_variables") /\ \E N \in 0..MaxStep : train(N)
MainGetAttributes ==
    After("train") /\ get_attributes(<<STEP_NUM, UPDATE_HISTORY, ACCURACY>>, NoNums)
MainExitWorkers == After("get_attributes") /\ exit_workers

MainSteps ==
    \/ MainConstruct \/ MainInitializeVariables \/ MainTrain
    \/ MainGetAttributes \/ MainExitWorkers \/ MainReturn \/ TrainSteps

NextMain == MainSteps \/ \E r \in Ranks : ProfiledWorker(r)

\* every process runs: the Cluster goes on when it can, and so does a worker
\* whose comm.recv has a message
SpecMain ==
    /\ Init
    /\ [][NextMain]_vars
    /\ WF_vars(MainSteps)
    /\ \A r \in Ranks : WF_vars(ProfiledWorker(r))

\* the worker function by itself: its peer at cluster_rank sends any
\* instruction of the protocol, one at a time, with lists of graphs of the
\* worker in GET and COPY_TRAIN_GET, and takes the replies
CopyTrainGets(log) == Cardinality({i \in 1..Len(log) : log[i].instr = COPY_TRAIN_GET})

OwnedLists(r) ==
    UNION {{s \in [1..n -> Elems(rank_graphs[r])] :
               \A i, j \in 1..n : i # j => s[i] # s[j]} : n \in 0..MaxNums}
OwnedValues(r) ==
    UNION {[S -> Values] : S \in {T \in SUBSET Elems(rank_graphs[r]) :
                                      Cardinality(T) <= MaxNums}}
StepsAhead(r) ==
    CopyTrainGets(toWorker[r])
    + (IF \E num \in Owned(r) : TRUE
       THEN graphs[r][CHOOSE num \in Owned(r) : TRUE].step_num ELSE 0)

PeerSend(r) ==
    /\ cpc = "constructed"
    /\ r \in DOMAIN rank_graphs
    /\ wstate[r] = "Ready"
    /\ toWorker[r] = << >> /\ toMaster[r] = << >>
    /\ \E m \in {Msg(INIT, << >>, << >>, EmptyMap, 0, 0)}
              \cup {Msg(GET, nums, <<STEP_NUM, UPDATE_HISTORY>>, EmptyMap, 0, 0) :
                        nums \in OwnedLists(r)}
              \cup {Msg(COPY_TRAIN_GET, x[1], <<STEP_NUM, UPDATE_HISTORY>>, x[2], 0, 0) :
                        x \in IF StepsAhead(r) < MaxStep
                              THEN OwnedLists(r) \X OwnedValues(r) ELSE {}} :
           toWorker' = [toWorker EXCEPT ![r] = Append(@, m)]
    /\ UNCHANGED <<cluster, cpc, op, exit_called, tr, ga, best_num, result,
                   toMaster, wvars, callghost, trainghost, train_calls>>

PeerRecv(r) ==
    /\ cpc = "constructed"
    /\ toMaster[r] # << >>
    /\ toMaster' = [toMaster EXCEPT ![r] = Tail(@)]
    /\ call_log' = NoLog
    /\ UNCHANGED <<cluster, cpc, op, exit_called, tr, ga, best_num, result,
                   toWorker, wstate, wrange, graphs, callghost, trainghost,
                   train_calls>>

\* one worker, with each range it can be given
CallConstructOne == \E pop \in 0..MaxPop : Construct(pop, 1)

NextWorker ==
    \/ CallConstructOne \/ CallExitWorkers \/ Return
    \/ \E r \in Ranks : PeerSend(r) \/ PeerRecv(r) \/ ProfiledWorker(r)

SpecWorker == Init /\ [][NextWorker]_vars

\* ================================================================ claims
Constructed == cpc \notin {"new", "failed"}
NWorkers == Len(rank_graphs)

\* the [start, end) range sent to rank r: still in flight, or as received
SentRange(r) ==
    IF wstate[r] = "Uninit"
    THEN <<Head(toWorker[r]).start, Head(toWorker[r]).end>>
    ELSE wrange[r]
RangeSize(r) == SentRange(r)[2] - SentRange(r)[1]

\* C1: the ranges sent by Cluster.__init__ start at 0, each starts where the
\* previous one ends, the last ends at pop_size, no range is negative, every
\* graph number lies in exactly one range, and two range sizes differ by at
\* most 1 (also when pop_size is not a multiple of W or is below W).
C1_Partition ==
    Constructed =>
        /\ NWorkers >= 1
        /\ SentRange(1)[1] = 0
        /\ SentRange(NWorkers)[2] = pop_size
        /\ \A r \in 1..NWorkers : SentRange(r)[1] <= SentRange(r)[2]
        /\ \A r \in 1..(NWorkers - 1) : SentRange(r)[2] = SentRange(r + 1)[1]
        /\ \A num \in 0..(pop_size - 1) :
               Cardinality({r \in 1..NWorkers :
                   SentRange(r)[1] <= num /\ num < SentRange(r)[2]}) = 1
        /\ \A r, q \in 1..NWorkers : RangeSize(r) - RangeSize(q) <= 1

\* a construction with fewer graphs than workers: one worker has a graph,
\* another an empty range
C1_Witness ==
    /\ cpc = "constructed"
    /\ pop_size < NWorkers
    /\ \E r, q \in 1..NWorkers : RangeSize(r) = 1 /\ RangeSize(q) = 0

\* C9: a Cluster constructed with pop_size < 1 or with no worker fails before
\* any setup message is sent.
C9_ConfigurationError ==
    (cpc # "new" /\ (pop_size < 1 \/ rank_graphs = << >>)) =>
        /\ cpc = "failed"
        /\ \A r \in Ranks : toWorker[r] = << >> /\ wstate[r] = "Uninit"


\* the live state of graph number num, at the worker that owns it
Live(num) == graphs[graph_ranks[num + 1]][num]
Returned(method) == op = method /\ cpc = "returned"

\* C2: under fair scheduling every call of train returns, and when it has
\* returned every graph's step_num is at least until_step_num.
C2_TrainTerminates ==
    /\ (op = "train" /\ cpc # "returned") ~> Returned("train")
    /\ [](Returned("train") =>
            \A num \in 0..(pop_size - 1) :
                /\ num \in DOMAIN graphs[graph_ranks[num + 1]]
                /\ Live(num).step_num >= tr.until_step_num)

\* train has returned from MaxStep rounds on a partition with an empty range
C2_Witness ==
    /\ Returned("train")
    /\ tr.until_step_num = MaxStep
    /\ pop_size >= 1
    /\ \E r \in 1..NWorkers : rank_graphs[r] = << >>
    /\ \A num \in 0..(pop_size - 1) : Live(num).step_num = MaxStep


\* C3: train(N) called when every step_num is 0 runs exactly N rounds: N
\* COPY_TRAIN_GET to every worker, one ConvNet.train() per graph per round,
\* and every step_num is N on return.
C3_RoundsEqualTarget ==
    (op = "train" /\ start_zero) =>
        /\ cpc = "train_loop" =>
               \A num \in 0..(pop_size - 1) : train_calls[num] = round_no
        /\ cpc = "returned" =>
               /\ round_no = tr.until_step_num
               /\ \A r \in 1..NWorkers :
                      CopyTrainGets(sent_log[r]) = tr.until_step_num
               /\ \A num \in 0..(pop_size - 1) :
                      /\ train_calls[num] = tr.until_step_num
                      /\ Live(num).step_num = tr.until_step_num


ValueGets(log) ==
    Cardinality({i \in 1..Len(log) :
        log[i].instr = GET /\ VALUE \in Elems(log[i].attrs)})

\* C4: with 2 workers and 3 graphs the first worker owns 0 and 1, the second
\* owns 2; train(1) on step_nums all 0 sends each worker one COPY_TRAIN_GET,
\* with an empty new_values, sends no GET for VALUE, and leaves every
\* step_num at 1.
C4_TwoWorkersThreeGraphs ==
    (Constructed /\ pop_size = 3 /\ NWorkers = 2) =>
        /\ rank_graphs = << <<0, 1>>, <<2>> >>
        /\ SentRange(1) = <<0, 2>> /\ SentRange(2) = <<2, 3>>
        /\ (op = "train" /\ start_zero /\ tr.until_step_num = 1) =>
               /\ \A r \in 1..2 :
                      /\ ValueGets(sent_log[r]) = 0
                      /\ CopyTrainGets(sent_log[r]) <= 1
                      /\ \A i \in 1..Len(sent_log[r]) :
                             DOMAIN sent_log[r][i].new_values = {}
               /\ cpc = "returned" =>
                      /\ \A r \in 1..2 : CopyTrainGets(sent_log[r]) = 1
                      /\ \A num \in 0..2 : Live(num).step_num = 1

C4_Witness ==
    /\ pop_size = 3 /\ NWorkers = 2
    /\ Returned("train") /\ start_zero /\ tr.until_step_num = 1
    /\ round_no = 1

AttrOf(num, attribute) ==
    CASE attribute = STEP_NUM -> Live(num).step_num
      [] attribute = VALUE -> Live(num).value
      [] attribute = UPDATE_HISTORY -> Live(num).update_history
      [] attribute = ACCURACY -> Live(num).accuracy

\* C5: the list get_attributes returns has one tuple per requested graph
\* number, in the order requested (ascending over the whole population when no
\* numbers are given); tuple i holds the attributes of graph number
\* graph_nums[i] as its owning worker holds them, in the order of
\* attribute_ids.
C5_GetAttributes ==
    Returned("get_attributes") =>
        /\ ga.graph_nums = IF ga.arg_nums = NoNums
                           THEN [i \in 1..pop_size |-> i - 1] ELSE ga.arg_nums
        /\ Len(ga.result) = Len(ga.graph_nums)
        /\ \A i \in 1..Len(ga.graph_nums) :
               /\ Len(ga.result[i]) = Len(ga.attribute_ids)
               /\ \A j \in 1..Len(ga.attribute_ids) :
                      ga.result[i][j] = AttrOf(ga.graph_nums[i], ga.attribute_ids[j])

\* two numbers of different workers, asked for in descending order, whose
\* tuples differ
C5_Witness ==
    /\ Returned("get_attributes")
    /\ ga.arg_nums # NoNums
    /\ Len(ga.graph_nums) = 2
    /\ ga.graph_nums[1] > ga.graph_nums[2]
    /\ graph_ranks[ga.graph_nums[1] + 1] # graph_ranks[ga.graph_nums[2] + 1]
    /\ Len(ga.attribute_ids) >= 2
    /\ ga.result[1] # ga.result[2]

\* the accuracy train ranks on, and the place of a graph number in ascending
\* accuracy, equal accuracies in ascending number
RankedAcc(num) == tr.attributes[num + 1][2]
RankOf(num) ==
    Cardinality({m \in 0..(pop_size - 1) :
        \/ RankedAcc(m) < RankedAcc(num)
        \/ RankedAcc(m) = RankedAcc(num) /\ m < num})
NumAtRank(k) == CHOOSE num \in 0..(pop_size - 1) : RankOf(num) = k
TopK == (pop_size + 4) \div 5

\* C6: after _exploit_and_or_explore the mapping holds exactly the TopK
\* lowest-ranked graph numbers, the i-th worst mapped to the value of the i-th
\* of the TopK highest-ranked; for 10 graphs with accuracies rising in the
\* number it is {0: value of 8, 1: value of 9}; for 1 graph it is empty and
\* no GET for VALUE is sent.
C6_ExploitPairs ==
    (op = "train" /\ cpc = "train_send" /\ tr.exploited) =>
        /\ pop_size > 1 =>
               /\ DOMAIN tr.new_values = {NumAtRank(i - 1) : i \in 1..TopK}
               /\ \A i \in 1..TopK :
                      tr.new_values[NumAtRank(i - 1)] =
                          Live(NumAtRank(pop_size - TopK + i - 1)).value
        /\ pop_size = 1 =>
               /\ DOMAIN tr.new_values = {}
               /\ \A r \in Ranks : ValueGets(sent_log[r]) = 0
        /\ (/\ pop_size = 10
            /\ \A m \in 0..8 : RankedAcc(m) < RankedAcc(m + 1)) =>
               /\ DOMAIN tr.new_values = {0, 1}
               /\ tr.new_values[0] = Live(8).value
               /\ tr.new_values[1] = Live(9).value

C6_Witness ==
    /\ op = "train" /\ cpc = "train_send" /\ tr.exploited
    /\ pop_size = 10
    /\ NWorkers = 2
    /\ \A m \in 0..8 : RankedAcc(m) < RankedAcc(m + 1)
    /\ Live(8).value # Live(9).value

\* C7: get_highest_metric_graph returns the graph number of greatest accuracy,
\* the lowest such number when several share it, loaded with the value its
\* owning worker holds; one GET for VALUE is sent, to that owner alone.
C7_HighestMetricGraph ==
    Returned("get_highest_metric_graph") =>
        LET best == CHOOSE num \in 0..(pop_size - 1) :
                        \A m \in 0..(pop_size - 1) :
                            /\ Live(m).accuracy <= Live(num).accuracy
                            /\ Live(m).accuracy = Live(num).accuracy => num <= m
        IN  /\ result.num = best
            /\ result.value = Live(best).value
            /\ \A r \in Ranks :
                   ValueGets(sent_log[r]) =
                       IF r = graph_ranks[best + 1] THEN 1 ELSE 0

\* the greatest accuracy is shared, and not by graph number 0
C7_Witness ==
    /\ Returned("get_highest_metric_graph")
    /\ result.num >= 1
    /\ \E m \in 0..(pop_size - 1) :
           m > result.num /\ Live(m).accuracy = Live(result.num).accuracy
    /\ \E m \in 0..(pop_size - 1) : Live(m).value # result.value

\* C8: once exit_workers has been called no method sends a message to any
\* worker.
C8_RejectedAfterExit ==
    [][exit_called => \A r \in Ranks : Len(toWorker'[r]) <= Len(toWorker[r])]_vars

IsGet(m) == m.instr \in {GET, COPY_TRAIN_GET}
Gets(q) == Cardinality({i \in 1..Len(q) : IsGet(q[i])})

\* C10: a worker takes its instructions from the head of its channel, one at
\* a time; taking a GET or COPY_TRAIN_GET appends exactly one reply, keyed by
\* the requested numbers, taking anything else appends none, and no reply is
\* sent otherwise; so the replies a worker has sent always equal the GETs and
\* COPY_TRAIN_GETs it has taken.
C10_ReplyDiscipline ==
    /\ [](\A r \in Ranks :
            Gets(sent_log[r]) - Gets(toWorker[r]) = recvd[r] + Len(toMaster[r]))
    /\ [][\A r \in Ranks :
            /\ Len(toWorker'[r]) < Len(toWorker[r]) =>
                   /\ toWorker'[r] = Tail(toWorker[r])
                   /\ IF IsGet(Head(toWorker[r]))
                      THEN /\ Len(toMaster'[r]) = Len(toMaster[r]) + 1
                           /\ SubSeq(toMaster'[r], 1, Len(toMaster[r])) = toMaster[r]
                           /\ DOMAIN toMaster'[r][Len(toMaster'[r])] =
                                  Elems(Head(toWorker[r]).nums)
                      ELSE toMaster'[r] = toMaster[r]
            /\ Len(toMaster'[r]) > Len(toMaster[r]) =>
                   Len(toWorker'[r]) < Len(toWorker[r])]_vars

\* a worker with an empty range has answered the GET and a COPY_TRAIN_GET of
\* a train call
C10_Witness ==
    /\ op = "train"
    /\ \E r \in 1..NWorkers :
           /\ rank_graphs[r] = << >>
           /\ recvd[r] >= 2
           /\ CopyTrainGets(sent_log[r]) >= 1

\* the graphs the workers have created so far
Created(num) == num \in DOMAIN graphs[graph_ranks[num + 1]]
Sends == \E r \in Ranks : Len(toWorker'[r]) > Len(toWorker[r])
AllRepliesIn == \A r \in 1..NWorkers : recvd[r] = Gets(sent_log[r])

\* C11: inside train the Cluster sends an instruction (the GET of the exploit
\* or a COPY_TRAIN_GET) only when every reply to what it sent before has been
\* received; so the step_nums of two graphs never differ by more than 1, and
\* between two rounds of train, and between calls, they are all equal.
C11_RoundBarrier ==
    /\ [][(op = "train" /\ Sends) => AllRepliesIn]_vars
    /\ [](Constructed =>
            \A num, m \in 0..(pop_size - 1) :
                (Created(num) /\ Created(m)) =>
                    /\ Live(num).step_num - Live(m).step_num <= 1
                    /\ (cpc \in {"train_loop", "exploit_ret", "train_send",
                                 "returned", "idle"}) =>
                           Live(num).step_num = Live(m).step_num)

\* in the middle of the second round: the first worker has trained, the
\* second has not
C11_Witness ==
    /\ op = "train" /\ cpc = "train_recv" /\ round_no = 2
    /\ NWorkers = 2 /\ pop_size >= 2
    /\ Live(0).step_num = 2
    /\ Live(pop_size - 1).step_num = 1

UnderWay(num) == 0 < Live(num).step_num /\ Live(num).step_num < tr.until_step_num
Exploiting == cpc \in {"ga_recv", "exploit_ret"} /\ ga.ret = "exploit_ret"

LastSent(r) == sent_log[r][Len(sent_log[r])]
InRange(num, r) == SentRange(r)[1] <= num /\ num < SentRange(r)[2]

\* C13: in every round of train the new_values of the COPY_TRAIN_GET sent to
\* a worker holds only graph numbers of that worker's range, every entry of
\* the mapping _exploit_and_or_explore returned is in the COPY_TRAIN_GET of
\* exactly one worker, its owner, with the same value, and no worker fails on
\* a graph number it does not own.
C13_ReplacementRouting ==
    /\ \A r \in Ranks :
           /\ wstate[r] # "Crashed"
           /\ \A i \in 1..Len(toWorker[r]) :
                  toWorker[r][i].instr = COPY_TRAIN_GET =>
                      \A num \in DOMAIN toWorker[r][i].new_values : InRange(num, r)
    /\ (op = "train" /\ cpc = "train_recv") =>
           /\ \A r \in 1..NWorkers :
                  /\ LastSent(r).instr = COPY_TRAIN_GET
                  /\ \A num \in DOMAIN LastSent(r).new_values :
                         /\ InRange(num, r)
                         /\ num \in DOMAIN tr.new_values
                         /\ LastSent(r).new_values[num] = tr.new_values[num]
           /\ \A num \in DOMAIN tr.new_values :
                  {r \in 1..NWorkers : num \in DOMAIN LastSent(r).new_values}
                      = {graph_ranks[num + 1]}

\* a round whose two replacements go to different workers
C13_Witness ==
    /\ op = "train" /\ cpc = "train_recv"
    /\ \E num, m \in DOMAIN tr.new_values :
           /\ graph_ranks[num + 1] # graph_ranks[m + 1]
           /\ DOMAIN LastSent(graph_ranks[num + 1]).new_values = {num}
           /\ DOMAIN LastSent(graph_ranks[m + 1]).new_values = {m}

\* worker r takes a COPY_TRAIN_GET from its channel in this step
TakesCopyTrainGet(r) ==
    /\ wstate[r] = "Ready"
    /\ toWorker[r] # << >>
    /\ Head(toWorker[r]).instr = COPY_TRAIN_GET
    /\ toWorker'[r] = Tail(toWorker[r])
Listed(num, r) == num \in Elems(Head(toWorker[r]).nums)

\* C14: a worker that handles a COPY_TRAIN_GET gives one training step to
\* each graph it owns that the instruction lists, and to no other: the numbers
\* listed are graphs of the worker, the step_num of a listed graph rises by 1,
\* the step_num of an owned graph that is not listed and the graphs of the
\* other workers stay as they are.
C14_TrainsListed ==
    [][\A r \in Ranks : TakesCopyTrainGet(r) =>
          /\ wstate'[r] = "Ready"
          /\ Elems(Head(toWorker[r]).nums) \subseteq Owned(r)
          /\ DOMAIN graphs'[r] = Owned(r)
          /\ \A num \in Owned(r) :
                 graphs'[r][num].step_num = graphs[r][num].step_num
                     + (IF Listed(num, r) THEN 1 ELSE 0)
          /\ \A q \in Ranks \ {r} : graphs'[q] = graphs[q]]_vars

\* C14, amended: a worker that handles a COPY_TRAIN_GET gives one training
\* step to every graph it owns, listed or not; the list only selects the graphs
\* of the reply; the graphs of the other workers stay as they are.
C14_TrainsOwned ==
    [][\A r \in Ranks : TakesCopyTrainGet(r) =>
          /\ wstate'[r] = "Ready"
          /\ DOMAIN graphs'[r] = Owned(r)
          /\ \A num \in Owned(r) :
                 graphs'[r][num].step_num = graphs[r][num].step_num + 1
          /\ Len(toMaster'[r]) = Len(toMaster[r]) + 1
          /\ DOMAIN toMaster'[r][Len(toMaster'[r])] = Elems(Head(toWorker[r]).nums)
          /\ \A q \in Ranks \ {r} : graphs'[q] = graphs[q]]_vars

\* a worker with graphs 0 and 1 has handled a COPY_TRAIN_GET that lists
\* graph 0 only: both have taken the step
C14_Witness ==
    \E r \in Ranks :
        /\ wstate[r] = "Ready"
        /\ Owned(r) = {0, 1}
        /\ Len(toMaster[r]) = 1
        /\ DOMAIN toMaster[r][1] = {0}
        /\ toMaster[r][1][0][1] = 1
        /\ graphs[r][0].step_num = 1 /\ graphs[r][1].step_num = 1

CallsAt(log, method, num) ==
    {i \in 1..Len(log) : log[i].method = method /\ log[i].num = num}
TrainsAt(log) == {i \in 1..Len(log) : log[i].method = "train"}

\* C15: a worker that handles a COPY_TRAIN_GET calls, for each graph number
\* of new_values, set_value with the value supplied and then explore, once
\* each and before any train of the instruction; a graph that is not in
\* new_values gets neither call and keeps its update_history, one that is
\* has it extended by one update; the reply is built after the training, so
\* a step_num in it is the one before the instruction plus 1.
C15_CopyThenTrain ==
    [][\A r \in Ranks : TakesCopyTrainGet(r) =>
          LET data == Head(toWorker[r])
              log == call_log'[r]
              reply == toMaster'[r][Len(toMaster'[r])]
          IN  /\ \A num \in Owned(r) :
                     IF num \in DOMAIN data.new_values
                     THEN /\ \E i, j \in 1..Len(log) :
                                /\ CallsAt(log, "set_value", num) = {i}
                                /\ CallsAt(log, "explore", num) = {j}
                                /\ log[i].arg = data.new_values[num]
                                /\ i < j
                                /\ \A k \in TrainsAt(log) : j < k
                          /\ graphs'[r][num].update_history =
                                 graphs[r][num].update_history + 1
                     ELSE /\ CallsAt(log, "set_value", num) = {}
                          /\ CallsAt(log, "explore", num) = {}
                          /\ graphs'[r][num].update_history =
                                 graphs[r][num].update_history
              /\ Len(toMaster'[r]) = Len(toMaster[r]) + 1
              /\ \A num \in Elems(data.nums) : \A j \in 1..Len(data.attrs) :
                     data.attrs[j] = STEP_NUM =>
                         reply[num][j] = graphs[r][num].step_num + 1]_vars

\* a worker with graphs 0, 1 and 2 has handled a COPY_TRAIN_GET with new
\* values for 0 and 2: they have one update each, graph 1 has none
C15_Witness ==
    \E r \in Ranks :
        /\ Owned(r) = {0, 1, 2}
        /\ Len(call_log[r]) = 7
        /\ call_log[r][1] = Call("set_value", 0, 1)
        /\ call_log[r][3] = Call("set_value", 2, 0)
        /\ graphs[r][0].update_history = 1
        /\ graphs[r][1].update_history = 0
        /\ graphs[r][2].update_history = 1
        /\ toMaster[r] # << >>

\* C16: for every population of 2 or more, the worst and the best group of
\* _exploit_and_or_explore both have ceil(0.2 * pop_size) >= 1 graph numbers
\* and share none; so best_attributes[i] exists for every worst_nums[i] (the
\* call never fails), no graph copies from itself and no graph of the best
\* group is given a new value in the round.
C16_GroupSizes ==
    /\ op = "train" => cpc # "failed"
    /\ (op = "train" /\ tr.exploited /\ pop_size >= 2) =>
           /\ Len(tr.worst_nums) = (pop_size + 4) \div 5
           /\ Len(tr.best_nums) = (pop_size + 4) \div 5
           /\ Len(tr.worst_nums) >= 1
           /\ Elems(tr.worst_nums) \cap Elems(tr.best_nums) = {}
           /\ \A i \in 1..Len(tr.worst_nums) : tr.worst_nums[i] # tr.best_nums[i]
           /\ cpc \in {"train_send", "train_recv"} =>
                  /\ DOMAIN tr.new_values = Elems(tr.worst_nums)
                  /\ DOMAIN tr.new_values \cap Elems(tr.best_nums) = {}

\* seven graphs: two copy from two others
C16_Witness ==
    /\ op = "train" /\ cpc = "train_send" /\ tr.exploited
    /\ pop_size = 7
    /\ Len(tr.worst_nums) = 2 /\ Len(tr.best_nums) = 2
    /\ DOMAIN tr.new_values = {5, 6}

\* the requested graph numbers that rank r owns, in the order requested
Requested(r) ==
    LET Mine(num) == graph_ranks[num + 1] = r
    IN  SelectSeq(ga.graph_nums, Mine)
InGetAttributes == op = "get_attributes" /\ cpc \in {"ga_recv", "returned"}

\* C17: get_attributes sends one GET to each worker that owns a requested
\* graph number and nothing to a worker that owns none, also when no numbers
\* are given and a worker has an empty range, and receives one reply from each
\* worker it sent to.  (Stated for populations of at least one graph.)
C17_OneGetPerOwner ==
    (InGetAttributes /\ pop_size >= 1) =>
        \A r \in Ranks :
            /\ Len(sent_log[r]) = IF Requested(r) # << >> THEN 1 ELSE 0
            /\ cpc = "returned" => recvd[r] = Len(sent_log[r])

\* C17, amended: given graph numbers, get_attributes sends one GET to each
\* worker that owns one of them, listing its numbers in the order requested,
\* and nothing to the others; given none, it sends one GET to every worker,
\* with an empty list to a worker whose range is empty; it receives one reply
\* from each worker it sent to, and it does not fail.
C17_OneGetPerAddressed ==
    /\ op = "get_attributes" => cpc # "failed"
    /\ InGetAttributes =>
           \A r \in Ranks :
               /\ IF r \in 1..NWorkers /\ (ga.arg_nums = NoNums \/ Requested(r) # << >>)
                  THEN /\ Len(sent_log[r]) = 1
                       /\ sent_log[r][1].instr = GET
                       /\ sent_log[r][1].nums = Requested(r)
                       /\ sent_log[r][1].attrs = ga.attribute_ids
                  ELSE sent_log[r] = << >>
               /\ recvd[r] <= Len(sent_log[r])
               /\ cpc = "returned" =>
                      /\ recvd[r] = Len(sent_log[r])
                      /\ toMaster[r] = << >>

\* no numbers given, one graph, two workers: the worker with the empty
\* range has been sent a GET and has answered it
C17_Witness ==
    /\ Returned("get_attributes")
    /\ ga.arg_nums = NoNums
    /\ pop_size = 1 /\ NWorkers = 2
    /\ rank_graphs[2] = << >>
    /\ sent_log[2] # << >> /\ sent_log[2][1].nums = << >>
    /\ recvd[2] = 1

\* the main sequence is over and nothing is left of the run
MainDone ==
    /\ After("exit_workers")
    /\ \A r \in 1..NWorkers :
           wstate[r] = "Exited" /\ toWorker[r] = << >> /\ toMaster[r] = << >>

\* C18: the run of construct, initialize_variables, train, get_attributes,
\* exit_workers with one or more workers never stops before its end: it
\* reaches, and stays in, the state where the Cluster has finished, every
\* worker has exited and no message is left in a channel; on the way a worker
\* becomes Ready only by taking its setup message, the only one it is sent,
\* becomes Exited only by taking an EXIT while Ready, and changes state in no
\* other way.
C18_MainRun ==
    /\ <>[]MainDone
    /\ [](~MainDone => ENABLED NextMain)
    /\ [][\A r \in Ranks :
            /\ wstate'[r] # wstate[r] =>
                   /\ toWorker[r] # << >> /\ toWorker'[r] = Tail(toWorker[r])
                   /\ \/ /\ wstate[r] = "Uninit" /\ wstate'[r] = "Ready"
                         /\ Head(toWorker[r]).instr = SETUP
                      \/ /\ wstate[r] = "Ready" /\ wstate'[r] = "Exited"
                         /\ Head(toWorker[r]).instr = EXIT
            /\ (toWorker[r] # << >> /\ Head(toWorker[r]).instr = EXIT
                   /\ toWorker'[r] = Tail(toWorker[r])) => wstate'[r] = "Exited"
            /\ \A i \in 1..Len(toWorker'[r]) :
                   toWorker'[r][i].instr = SETUP => (wstate'[r] = "Uninit" /\ i = 1)
      ]_vars

\* the run has ended after MaxStep rounds of training on two workers
C18_Witness ==
    /\ MainDone
    /\ NWorkers = 2
    /\ \A num \in 0..(pop_size - 1) : Live(num).step_num = MaxStep

\* the Cluster is in train with no COPY_TRAIN_GET under way
Deciding ==
    /\ op = "train"
    /\ \/ cpc \in {"train_loop", "exploit_ret", "train_send", "returned"}
       \/ Exploiting

\* C19: whenever train decides, the step_num and accuracy it holds for each
\* graph are those the graph has at its worker; when a round with exploit is
\* sent, no worker has an instruction or a reply under way, no graph has
\* taken the step of the round, and the value sent for worst_nums[i] is the
\* value best_nums[i] has at that moment; the worker of worst_nums[i] finds
\* that value in its COPY_TRAIN_GET whenever it takes it, whether the worker
\* of best_nums[i] has trained by then or not.
C19_Snapshot ==
    /\ [](Deciding =>
            \A num \in 0..(pop_size - 1) :
                tr.attributes[num + 1] = <<Live(num).step_num, Live(num).accuracy>>)
    /\ [][(op = "train" /\ cpc = "train_send" /\ cpc' = "train_recv") =>
            /\ \A r \in 1..NWorkers : toWorker[r] = << >> /\ toMaster[r] = << >>
            /\ \A num \in 0..(pop_size - 1) : train_calls[num] = round_no
            /\ (tr.exploited /\ pop_size > 1) =>
                   \A i \in 1..Len(tr.worst_nums) :
                       LET r == graph_ranks[tr.worst_nums[i] + 1]
                       IN  sent_log'[r][Len(sent_log'[r])].new_values[tr.worst_nums[i]]
                               = Live(tr.best_nums[i]).value]_vars
    /\ [][\A r \in Ranks : (op = "train" /\ TakesCopyTrainGet(r)) =>
            Head(toWorker[r]).new_values =
                RankNewValues(rank_graphs[r], tr.new_values)]_vars

\* the graph copied from has trained in the round and has a new value, the
\* COPY_TRAIN_GET with its old value is still on its way to the other worker
C19_Witness ==
    /\ op = "train" /\ cpc = "train_recv" /\ tr.exploited
    /\ \E i \in 1..Len(tr.worst_nums) :
           LET worst == tr.worst_nums[i]
               best == tr.best_nums[i]
               r == graph_ranks[worst + 1]
           IN  /\ r # graph_ranks[best + 1]
               /\ toWorker[r] # << >>
               /\ Head(toWorker[r]).instr = COPY_TRAIN_GET
               /\ train_calls[best] = round_no
               /\ train_calls[worst] = round_no - 1
               /\ Head(toWorker[r]).new_values[worst] # Live(best).value

\* C20: once the Cluster is constructed no method changes pop_size,
\* rank_graphs or graph_ranks, and in every state graph number i is in
\* rank_graphs[r] exactly when graph_ranks holds r for i and exactly when i
\* lies in the range sent to worker r; a worker that has taken its range
\* holds those graphs and no others.
C20_AssignmentTables ==
    /\ [][Constructed => cluster' = cluster]_vars
    /\ [](Constructed =>
            /\ Len(graph_ranks) = pop_size
            /\ \A r \in 1..NWorkers :
                   /\ Len(rank_graphs[r]) = Cardinality(Elems(rank_graphs[r]))
                   /\ Elems(rank_graphs[r]) \subseteq 0..(pop_size - 1)
                   /\ wstate[r] # "Uninit" => Owned(r) = Elems(rank_graphs[r])
                   /\ \A i \in 0..(pop_size - 1) :
                          /\ i \in Elems(rank_graphs[r]) <=> graph_ranks[i + 1] = r
                          /\ graph_ranks[i + 1] = r <=> InRange(i, r))

\* get_attributes has returned the attributes of graphs 2 and 0, asked for
\* in this order from two workers
C20_Witness ==
    /\ Returned("get_attributes")
    /\ ga.arg_nums = <<2, 0>>
    /\ rank_graphs = << <<0, 1>>, <<2>> >>
    /\ graph_ranks = <<1, 1, 2>>
    /\ \A r \in 1..2 : wstate[r] = "Ready" /\ recvd[r] = 1

====
